---- MODULE Spec2Model ----
(***************************************************************************)
(* Adaptive Loan Repayment Scheduler (src/loanscheduler.cpp).              *)
(*                                                                         *)
(* Number representation.  The program computes in IEEE doubles; the model *)
(* computes in integer fixed point:                                        *)
(*   - money (principal, amount, pay) in micro-units, 1 = 1e-6, so that    *)
(*     the settlement threshold 1e-6 of the source is the integer Eps;     *)
(*   - lateFee in whole currency units, annualRate in percent,             *)
(*     creditFactor and inflationSensitivity in tenths, inflationRate in   *)
(*     hundredths;                                                         *)
(*   - urgency in 1e-4 (Log1pUrgency tabulates 1/(1+log1p(days)));         *)
(*   - a priority score in tenths, held as two limbs <<hi, lo>> that stand *)
(*     for hi * ScoreBase + lo with 0 <= lo < ScoreBase, because the       *)
(*     sentinel -1e15 does not fit one 32-bit integer of TLC.              *)
(* Each term of the score is rounded down to its unit.                     *)
(***************************************************************************)
EXTENDS Integers, Sequences, FiniteSets, TLC

\* ------------------------------------------------------------------ bounds
MaxLoans == 3
MaxDay == 8
MaxOverdue == 2

\* --------------------------------------------------------- representation
Micro == 1000000
ScoreBase == 1000000000
Eps == 1

\* 10000 / (1 + log1p(days)) for days = 1 .. 40, rounded to nearest (40 > MaxDay)
Log1pUrgency ==
  << 5906, 4765, 4191, 3832, 3582, 3395, 3247, 3128, 3028, 2943,
     2870, 2805, 2748, 2697, 2651, 2609, 2570, 2535, 2503, 2472,
     2444, 2418, 2393, 2370, 2348, 2328, 2308, 2290, 2272, 2255,
     2239, 2224, 2209, 2195, 2182, 2169, 2156, 2144, 2133, 2122 >>

Min(a, b) == IF a <= b THEN a ELSE b
Max(a, b) == IF a >= b THEN a ELSE b

\* a one-limb score value as the two-limb number
ToScore(v) == << v \div ScoreBase, v % ScoreBase >>

\* a.first < b.first on two-limb scores
ScoreLess(a, b) == a[1] < b[1] \/ (a[1] = b[1] /\ a[2] < b[2])

\* a slip: the sign of the sentinel is lost
SentinelPositive == << 10000000, 0 >>

\* -1e15, in tenths
Sentinel == << 0 - 10000000, 0 >>

\* ---------------------------------------------------------------- struct Loan
Loan(id, name, principal, rate, days, lateFee, creditFactor, variableRate) ==
  [ id |-> id, name |-> name, principal |-> principal, annualRate |-> rate,
    daysUntilDue |-> days, lateFee |-> lateFee, creditFactor |-> creditFactor,
    variableRate |-> variableRate, inflationSensitivity |-> 0 ]

\* ------------------------------------------------------------ helper functions
\* a slip: a value over the upper limit wraps round to the lower limit
clampWrap(v, lo, hi) == IF v > hi THEN lo ELSE Max(lo, v)

clamp(v, lo, hi) == Max(lo, Min(v, hi))

\* a slip: the boundary of the overdue case is one day late
computeUrgencyLateBoundary(days) ==
  IF days <= 1 THEN 10000 ELSE Log1pUrgency[days]

\* urgency in 1e-4
computeUrgency(days) ==
  IF days <= 0 THEN 10000 ELSE Log1pUrgency[days]

\* the weighted sum and the short-term boost, in tenths
computePriority(L, inflationRate) ==
  IF L.principal <= Eps THEN Sentinel
  ELSE
    LET urgency == computeUrgency(L.daysUntilDue)
        \* 1.5 * (annualRate / 100) * (principal / 1000)
        interestImpact15 == (15 * L.annualRate * (L.principal \div 1000)) \div 100000000
        \* lateFee / max(1, principal), in hundredths
        perRupeePenalty ==
          clamp((L.lateFee * 100000) \div (Max(Micro, L.principal) \div 1000), 0, 500000)
        \* 0.8 * perRupeePenalty * 10000 * urgency
        penaltyWeight08 ==
          8 * ((perRupeePenalty \div 100) * urgency
               + ((perRupeePenalty % 100) * urgency) \div 100)
        \* 0.8 * creditFactor * 100
        creditImpact08 == 80 * L.creditFactor
        inflationAdj ==
          IF L.variableRate
            THEN 0 - ((inflationRate * L.inflationSensitivity * (L.principal \div 1000))
                        \div 100000000)
            ELSE 0
        priority == interestImpact15 + penaltyWeight08 + creditImpact08
                      + (urgency * 5) + inflationAdj
    IN  IF L.daysUntilDue <= 5 THEN ToScore((priority * 5) \div 4)
        ELSE ToScore(priority)

\* a slip: the comparison turned round, which makes the heap a min-heap
CompareGreater(a, b) == ScoreLess(b.score, a.score)

\* a slip: the comparison looks at the principal of the loan, not at the score
CompareByPrincipal(a, b) == a.L.principal < b.L.principal

\* struct Compare
Compare(a, b) == ScoreLess(a.score, b.score)

\* ------------------------------------------- std::priority_queue (binary heap)
\* std::__push_heap: move the hole up while its parent compares less than v
RECURSIVE PushHeapUp(_, _, _)
PushHeapUp(h, hole, v) ==
  IF hole > 1 /\ Compare(h[hole \div 2], v)
    THEN PushHeapUp([h EXCEPT ![hole] = h[hole \div 2]], hole \div 2, v)
    ELSE [h EXCEPT ![hole] = v]

\* priority_queue::push: push_back, then push_heap
PqPush(h, v) == PushHeapUp(Append(h, v), Len(h) + 1, v)

\* std::__adjust_heap, first loop: move the hole down to the larger child
RECURSIVE AdjustHeapDown(_, _, _)
AdjustHeapDown(h, hole, len) ==
  \* 0-based: while (secondChild < (len - 1) / 2)
  IF (hole - 1) < (len - 1) \div 2
    THEN LET right == 2 * hole + 1
             child == IF Compare(h[right], h[right - 1]) THEN right - 1 ELSE right
         IN  AdjustHeapDown([h EXCEPT ![hole] = h[child]], child, len)
    ELSE << h, hole >>

\* priority_queue::pop: pop_heap, then pop_back
PqPop(h) ==
  IF Len(h) <= 1 THEN << >>
  ELSE
    LET len == Len(h) - 1
        value == h[Len(h)]
        body == SubSeq(h, 1, len)
        down == AdjustHeapDown(body, 1, len)
        h1 == down[1]
        hole1 == down[2]
        \* if ((len & 1) == 0 && secondChild == (len - 2) / 2): the lone left child
        lone == len % 2 = 0 /\ (hole1 - 1) = (len - 2) \div 2
        h2 == IF lone THEN [h1 EXCEPT ![hole1] = h1[2 * hole1]] ELSE h1
        hole2 == IF lone THEN 2 * hole1 ELSE hole1
    IN  PushHeapUp(h2, hole2, value)

\* a slip: the last element of the heap's array is taken for the top
PqBack(h) == h[Len(h)]

\* pq.top()
PqTop(h) == h[1]


\* ------------------------------------------------------------------ inputs
\* one payment quantum of the inputs: 150 currency units
Quantum == 150 * Micro

\* what the menu's "Add a Loan" prompts can be answered with (main, choice 1):
\* name, principal, rate, days, late fee, credit factor, variable rate
LoanInputs ==
  { << "Car",  3 * Quantum, 40, 3, 500,  5, FALSE >>,
    << "Edu",  2 * Quantum,  8, 8, 100,  2, TRUE  >>,
    << "Dust", 2,           12, 3, 6000, 0, FALSE >>,
    << "Paid", 1,           12, 8, 100,  2, FALSE >> }

\* answers to "Enter total payment amount" (main, choice 3)
AmountInputs == { 0 - Quantum, 0, 2 * Quantum, 4 * Quantum }

\* answers to "Enter number of days to simulate" (main, choice 4)
DayInputs == { 0 - 5, 0, 5 }

\* -------------------------------------------------------------------- state
VARIABLES
  loans,        \* AdaptiveScheduler::loans, the master collection
  pq,           \* AdaptiveScheduler::pq, the heap array of (score, Loan) pairs
  id,           \* main: the next loan id
  choice,       \* main: the menu choice being served (0 before the first)
  pc,           \* "menu", or "alloc" inside the while loop of allocatePayment
  amt,          \* main: the amount passed to allocatePayment
  days,         \* main: the days passed to simulateDays
  amount,       \* allocatePayment: the remaining amount
  trace,        \* the "Paid ..." lines of the current allocatePayment call
  listing,      \* the loan rows printed by the current operation
  msgs,         \* the condition messages printed by the current operation
  loansAtCall   \* history: the master collection when allocatePayment was entered

vars == << loans, pq, id, choice, pc, amt, days, amount, trace, listing, msgs,
           loansAtCall >>

\* AdaptiveScheduler scheduler(0.05), in hundredths
inflationRate == 5

\* the payment lines kept for one call; later lines repeat the last one
MaxTrace == MaxLoans + 1

\* ------------------------------------------------------- AdaptiveScheduler
\* the for loop of rebuildHeap over loans[i .. ]
RECURSIVE PushAll(_, _, _)
PushAll(h, ls, i) ==
  IF i > Len(ls) THEN h
  ELSE PushAll(PqPush(h, [ score |-> computePriority(ls[i], inflationRate), L |-> ls[i] ]),
               ls, i + 1)

\* a slip: an if for the while, only one old entry is popped
PopOne(h) == IF h = << >> THEN h ELSE PqPop(h)

\* while (!pq.empty()) pq.pop()
RECURSIVE PopAll(_)
PopAll(h) == IF h = << >> THEN h ELSE PopAll(PqPop(h))

\* a slip: the old entries are not popped before the loans are pushed
rebuildHeapNoClear(h, ls) == PushAll(h, ls, 1)

rebuildHeap(h, ls) == PushAll(PopAll(h), ls, 1)

\* a slip: the rows are printed without the test that skips settled loans
RECURSIVE DrainRowsAll(_)
DrainRowsAll(temp) ==
  IF temp = << >> THEN << >>
  ELSE << [ name |-> PqTop(temp).L.name, score |-> PqTop(temp).score,
            principal |-> PqTop(temp).L.principal,
            daysUntilDue |-> PqTop(temp).L.daysUntilDue ] >>
         \o DrainRowsAll(PqPop(temp))

\* the while loop of displayPriorities over the copy temp: the rows printed
RECURSIVE DrainRows(_)
DrainRows(temp) ==
  IF temp = << >> THEN << >>
  ELSE LET top == PqTop(temp)
           rest == DrainRows(PqPop(temp))
       IN  IF top.L.principal <= Eps THEN rest
           ELSE << [ name |-> top.L.name, score |-> top.score,
                     principal |-> top.L.principal,
                     daysUntilDue |-> top.L.daysUntilDue ] >> \o rest

\* a slip: displayPriorities without its test for an empty collection
displayPrioritiesNoEmptyTest(h, ls) ==
  [ pq |-> rebuildHeap(h, ls), listing |-> DrainRows(rebuildHeap(h, ls)),
    msgs |-> IF DrainRows(rebuildHeap(h, ls)) = << >>
               THEN { "Header", "AllRepaid" } ELSE { "Header" } ]

\* displayPriorities: the heap it leaves, the rows and the messages it prints
displayPriorities(h, ls) ==
  IF ls = << >>
    THEN [ pq |-> h, listing |-> << >>, msgs |-> { "NoLoansToDisplay" } ]
    ELSE LET heap == rebuildHeap(h, ls)
             rows == DrainRows(heap)
         IN  [ pq |-> heap, listing |-> rows,
               msgs |-> IF rows = << >> THEN { "Header", "AllRepaid" } ELSE { "Header" } ]

\* a slip: only a zero amount is turned away
InvalidAmountZero(a) == a = 0

\* allocatePayment: if (amount <= 0)
InvalidAmount(a) == a <= 0

\* a slip: >= for > in the loop test
LoopContinuesAtZero(a, h) == a >= 0 /\ h # << >>

\* allocatePayment: while (amount > 0.0 && !pq.empty())
LoopContinues(a, h) == a > 0 /\ h # << >>

\* a slip: an instalment cap, a step pays at most half of what the loan owes
PayHalf(a, L) == Min(a, (L.principal + 1) \div 2)

\* a slip: the whole remaining amount is paid, whatever the loan still owes
PayWhole(a, L) == a

\* a slip: max for min
PayMax(a, L) == Max(a, L.principal)

\* allocatePayment: double pay = min(amount, L.principal)
Pay(a, L) == Min(a, L.principal)

\* a slip: the id test is dropped, the first loan of the list takes the payment
UpdateMasterFirst(ls, i, lid, principal) ==
  IF ls = << >> THEN ls ELSE [ ls EXCEPT ![1].principal = principal ]

\* a slip: the payment is never written back to the master list
UpdateMasterNone(ls, i, lid, principal) == ls

\* the master-list update of allocatePayment: the first loan with this id
RECURSIVE UpdateMaster(_, _, _, _)
UpdateMaster(ls, i, lid, principal) ==
  IF i > Len(ls) THEN ls
  ELSE IF ls[i].id = lid THEN [ ls EXCEPT ![i].principal = principal ]
  ELSE UpdateMaster(ls, i + 1, lid, principal)

\* a slip: the days are added to the time left instead of taken from it
AdvanceDaysAdd(ls, d) ==
  [ i \in 1 .. Len(ls) |-> [ ls[i] EXCEPT !.daysUntilDue = @ + d ] ]

\* simulateDays: for (auto& L : loans) L.daysUntilDue -= days
AdvanceDays(ls, d) ==
  [ i \in 1 .. Len(ls) |-> [ ls[i] EXCEPT !.daysUntilDue = @ - d ] ]

\* ------------------------------------------------------------------ actions
Init ==
  /\ loans = << >>
  /\ pq = << >>
  /\ id = 1
  /\ choice = 0
  /\ pc = "menu"
  /\ amt = 0
  /\ days = 0
  /\ amount = 0
  /\ trace = << >>
  /\ listing = << >>
  /\ msgs = { }
  /\ loansAtCall = << >>

\* main, choice 1: scheduler.addLoan(Loan(id++, ...))
addLoan(in) ==
  /\ pc = "menu"
  /\ Len(loans) < MaxLoans
  /\ choice' = 1
  /\ loans' = Append(loans, Loan(id, in[1], in[2], in[3], in[4], in[5], in[6], in[7]))
  /\ id' = id + 1
  /\ msgs' = { "LoanAdded" }
  /\ listing' = << >>
  /\ trace' = << >>
  /\ amt' = 0
  /\ days' = 0
  /\ amount' = 0
  /\ loansAtCall' = << >>
  /\ UNCHANGED << pq, pc >>

\* main, choice 2: scheduler.displayPriorities()
viewPriorities ==
  /\ pc = "menu"
  /\ choice' = 2
  /\ LET d == displayPriorities(pq, loans)
     IN  /\ pq' = d.pq
         /\ listing' = d.listing
         /\ msgs' = d.msgs
  /\ trace' = << >>
  /\ amt' = 0
  /\ days' = 0
  /\ amount' = 0
  /\ loansAtCall' = << >>
  /\ UNCHANGED << loans, id, pc >>

\* main, choice 3: scheduler.allocatePayment(amt), up to the first loop test
allocatePayment(a) ==
  /\ pc = "menu"
  /\ choice' = 3
  /\ amt' = a
  /\ days' = 0
  /\ amount' = a
  /\ trace' = << >>
  /\ listing' = << >>
  /\ loansAtCall' = loans
  /\ IF loans = << >>
       THEN /\ msgs' = { "NoLoansForRepayment" }
            /\ UNCHANGED << pq, pc >>
       ELSE IF InvalidAmount(a)
         THEN /\ msgs' = { "InvalidAmount" }
              /\ UNCHANGED << pq, pc >>
         ELSE /\ msgs' = { "Allocating" }
              /\ pq' = rebuildHeap(pq, loans)
              /\ pc' = "alloc"
  /\ UNCHANGED << loans, id >>

\* one iteration of while (amount > 0.0 && !pq.empty())
allocateStep ==
  /\ pc = "alloc"
  /\ LoopContinues(amount, pq)
  /\ LET L == PqTop(pq).L
         pay == Pay(amount, L)
         ls == UpdateMaster(loans, 1, L.id, L.principal - pay)
     IN  /\ amount' = amount - pay
         /\ loans' = ls
         /\ pq' = rebuildHeap(PqPop(pq), ls)
         /\ trace' = IF Len(trace) < MaxTrace
                       THEN Append(trace, [ id |-> L.id, name |-> L.name, pay |-> pay,
                                            remaining |-> L.principal - pay ])
                       ELSE trace
  /\ UNCHANGED << id, choice, pc, amt, days, listing, msgs, loansAtCall >>

\* the loop test fails: the leftover line, then displayPriorities()
allocateReturn ==
  /\ pc = "alloc"
  /\ ~ LoopContinues(amount, pq)
  /\ LET d == displayPriorities(pq, loans)
     IN  /\ pq' = d.pq
         /\ listing' = d.listing
         /\ msgs' = msgs \cup d.msgs \cup (IF amount > 0 THEN { "Leftover" } ELSE { })
  /\ pc' = "menu"
  /\ UNCHANGED << loans, id, choice, amt, days, amount, trace, loansAtCall >>

\* main, choice 4: scheduler.simulateDays(days)
simulateDays(d) ==
  /\ pc = "menu"
  /\ \A i \in 1 .. Len(loans) :
       loans[i].daysUntilDue - d \in (0 - MaxOverdue) .. MaxDay
  /\ choice' = 4
  /\ days' = d
  /\ trace' = << >>
  /\ amt' = 0
  /\ amount' = 0
  /\ loansAtCall' = << >>
  /\ IF d = 0
       THEN /\ msgs' = { "NoDays" }
            /\ listing' = << >>
            /\ UNCHANGED << loans, pq >>
       ELSE LET ls == AdvanceDays(loans, d)
                r == displayPriorities(rebuildHeap(pq, ls), ls)
            IN  /\ loans' = ls
                /\ pq' = r.pq
                /\ listing' = r.listing
                /\ msgs' = { "Simulated" } \cup r.msgs
  /\ UNCHANGED << id, pc >>

Next ==
  \/ \E in \in LoanInputs : addLoan(in)
  \/ viewPriorities
  \/ \E a \in AmountInputs : allocatePayment(a)
  \/ allocateStep
  \/ allocateReturn
  \/ \E d \in DayInputs : simulateDays(d)

Spec == Init /\ [][Next]_vars

\* ------------------------------------------------------------------ claims
Settled(L) == L.principal <= Eps

AllSettled(ls) == \A i \in 1 .. Len(ls) : Settled(ls[i])

RECURSIVE SumPrincipal(_)
SumPrincipal(ls) ==
  IF ls = << >> THEN 0 ELSE ls[1].principal + SumPrincipal(Tail(ls))

RECURSIVE SumPaid(_)
SumPaid(t) == IF t = << >> THEN 0 ELSE t[1].pay + SumPaid(Tail(t))

\* an allocatePayment call that passed both checks and has returned
Returned == pc = "menu" /\ choice = 3 /\ "Allocating" \in msgs

\* C1: the pay-and-rebuild loop of allocatePayment stops as soon as the
\* remaining amount is 0 or every loan is settled: it takes another iteration
\* only while cash remains and some loan is still active.
C1_LoopStopsWhenSettledOrSpent ==
  (pc = "alloc" /\ LoopContinues(amount, pq)) =>
    (amount > 0 /\ ~ AllSettled(loans))

\* C2: cash is conserved at every step of an allocatePayment call and at its
\* return: the amounts paid so far plus the remaining amount equal the input
\* amount, and the master principals have gone down by exactly what was paid.
C2_CashConserved ==
  choice = 3 =>
    /\ SumPaid(trace) + amount = amt
    /\ SumPrincipal(loansAtCall) - SumPrincipal(loans) = SumPaid(trace)

\* a call in its loop after one payment, with cash still to allocate
C2_Witness ==
  /\ pc = "alloc"
  /\ Len(trace) = 1
  /\ trace[1].pay > 0
  /\ amount > 0
  /\ ~ AllSettled(loans)

\* C3: when allocatePayment(amount > 0) returns on a non-empty collection the
\* leftover is max(0, amount - total before), a leftover is reported only if
\* every loan is settled, and the total outstanding principal is
\* max(0, total before - amount).
C3_LeftoverOnlyWhenAllSettled ==
  Returned =>
    LET before == SumPrincipal(loansAtCall)
    IN  /\ amount = Max(0, amt - before)
        /\ "Leftover" \in msgs <=> amount > 0
        /\ amount > 0 => AllSettled(loans)
        /\ SumPrincipal(loans) = Max(0, before - amt)

\* a returned call that paid off one loan and part of the next
C3_Witness ==
  /\ Returned
  /\ Len(trace) = 2
  /\ trace[1].pay > 0 /\ trace[1].remaining = 0
  /\ trace[2].pay > 0 /\ trace[2].remaining > Eps

\* C4: every loan's principal is >= 0 and no step increases a loan's
\* principal or removes a loan.
C4_PrincipalNeverNegativeNorRaised ==
  [][ /\ Len(loans') >= Len(loans)
      /\ \A i \in 1 .. Len(loans') :
           /\ loans'[i].principal >= 0
           /\ i <= Len(loans) => loans'[i].principal <= loans[i].principal ]_vars

\* a loan that a payment has lowered without settling it
C4_Witness ==
  /\ choice = 3
  /\ \E i \in 1 .. Len(loans) :
       /\ loans[i].principal < loansAtCall[i].principal
       /\ loans[i].principal > Eps

\* displayPriorities ran to its end in the operation just served
Displayed ==
  /\ pc = "menu"
  /\ \/ choice = 2
     \/ choice = 3 /\ "Allocating" \in msgs
     \/ choice = 4 /\ days # 0

Active(ls) == { i \in 1 .. Len(ls) : ls[i].principal > Eps }

\* what a row shows of a loan, the score aside
RowKey(r) == << r.name, r.principal, r.daysUntilDue >>

\* C5: the listing of displayPriorities holds exactly the loans of the master
\* collection whose principal > 1e-6, each exactly once (as many rows show a
\* loan's name, principal and days as there are active loans with them), and
\* no row shows a settled loan.
C5_ListsExactlyActiveLoans ==
  Displayed =>
    /\ Len(listing) = Cardinality(Active(loans))
    /\ \A k \in 1 .. Len(listing) : listing[k].principal > Eps
    /\ \A i \in Active(loans) :
         Cardinality({ k \in 1 .. Len(listing) : RowKey(listing[k]) = RowKey(loans[i]) })
           = Cardinality({ j \in Active(loans) : RowKey(loans[j]) = RowKey(loans[i]) })

\* a listing with rows, printed while a settled loan is in the collection
C5_Witness ==
  /\ Displayed
  /\ Len(listing) >= 2
  /\ \E i \in 1 .. Len(loans) : Settled(loans[i])

\* C6: the rows are in descending order of score, and each row's score is
\* computePriority of a master loan with the row's name, principal and days.
C6_DescendingCurrentScores ==
  Displayed =>
    /\ \A k \in 1 .. Len(listing) - 1 :
         ~ ScoreLess(listing[k].score, listing[k + 1].score)
    /\ \A k \in 1 .. Len(listing) :
         \E i \in Active(loans) :
           /\ RowKey(listing[k]) = RowKey(loans[i])
           /\ listing[k].score = computePriority(loans[i], inflationRate)

\* a listing whose first row scores strictly above its last, printed for a
\* collection whose insertion order is not the score order
C6_Witness ==
  /\ Displayed
  /\ Len(listing) >= 2
  /\ ScoreLess(listing[Len(listing)].score, listing[1].score)
  /\ \E i, j \in Active(loans) :
       /\ i < j
       /\ ScoreLess(computePriority(loans[i], inflationRate),
                    computePriority(loans[j], inflationRate))

\* C7: displayPriorities is idempotent and read-only: a display step leaves
\* the master collection as it is, and a display that follows a display prints
\* the same rows and messages again.
C7_DisplayIdempotentReadOnly ==
  [][ (pc = "menu" /\ choice' = 2) =>
        /\ loans' = loans
        /\ choice = 2 => (listing' = listing /\ msgs' = msgs) ]_vars

\* a display of three loans of which two score the same
C7_Witness ==
  /\ pc = "menu" /\ choice = 2
  /\ Len(listing) = 3
  /\ \E k \in 1 .. 2 : listing[k].score = listing[k + 1].score
  /\ \E k \in 1 .. 2 : listing[k].score # listing[k + 1].score

\* C8: allocatePayment with amount <= 0 and simulateDays with days = 0 are
\* reported and change nothing: the master collection stays as it is and the
\* call returns without a payment step.
C8_InvalidCallsChangeNothing ==
  [][ /\ (pc = "menu" /\ choice' = 3 /\ amt' <= 0) =>
           /\ loans' = loans
           /\ pc' = "menu"
           /\ trace' = << >>
           /\ msgs' \in { { "InvalidAmount" }, { "NoLoansForRepayment" } }
      /\ (pc = "menu" /\ choice' = 4 /\ days' = 0) =>
           /\ loans' = loans
           /\ msgs' = { "NoDays" } ]_vars

\* a negative amount turned away while an active loan is waiting
C8_Witness ==
  /\ pc = "menu" /\ choice = 3
  /\ amt < 0
  /\ msgs = { "InvalidAmount" }
  /\ ~ AllSettled(loans)

\* C9: allocatePayment(amount > 0) on a non-empty collection whose loans are
\* all settled takes no payment step and changes no principal, and returns
\* reporting the all-settled condition and the whole amount as leftover.
C9_AllSettledCallReturnsWholeAmount ==
  (choice = 3 /\ amt > 0 /\ loansAtCall # << >> /\ AllSettled(loansAtCall)) =>
    /\ loans = loansAtCall
    /\ pc = "alloc" => ~ LoopContinues(amount, pq)
    /\ pc = "menu" =>
         (amount = amt /\ "Leftover" \in msgs /\ "AllRepaid" \in msgs)

\* C10: displayPriorities prints no row when the collection is empty or every
\* loan is settled, and reports the first case as "no loans" and the second
\* as "all repaid", never one for the other.
C10_NothingToShowConditions ==
  Displayed =>
    /\ loans = << >> =>
         (listing = << >> /\ "NoLoansToDisplay" \in msgs /\ "AllRepaid" \notin msgs)
    /\ (loans # << >> /\ AllSettled(loans)) =>
         (listing = << >> /\ "AllRepaid" \in msgs /\ "NoLoansToDisplay" \notin msgs)
    /\ listing # << >> =>
         ("AllRepaid" \notin msgs /\ "NoLoansToDisplay" \notin msgs)

\* a display of a collection that payments have settled entirely
C10_Witness ==
  /\ Displayed
  /\ choice = 2
  /\ loans # << >>
  /\ AllSettled(loans)
  /\ \E i \in 1 .. Len(loans) : loans[i].principal = 0
  /\ "AllRepaid" \in msgs

\* C11: simulateDays(days) with days # 0 takes exactly days from the
\* daysUntilDue of every loan, for positive and for negative days, lets the
\* result go below 0, and leaves every other field of every loan as it is.
C11_SimulateDaysShiftsEveryLoan ==
  [][ (pc = "menu" /\ choice' = 4 /\ days' # 0) =>
        /\ Len(loans') = Len(loans)
        /\ \A i \in 1 .. Len(loans) :
             loans'[i] = [ loans[i] EXCEPT !.daysUntilDue = loans[i].daysUntilDue - days' ] ]_vars

\* negative days have moved the due dates out: Car from 3 to 8, and Edu, which
\* was overdue at -2, to 3
C11_Witness ==
  /\ pc = "menu" /\ choice = 4
  /\ days < 0
  /\ \E i \in 1 .. Len(loans) : loans[i].name = "Car" /\ loans[i].daysUntilDue = 8
  /\ \E i \in 1 .. Len(loans) : loans[i].name = "Edu" /\ loans[i].daysUntilDue = 3

\* the loan at the top of the ranking built from the master collection at the call
TopAtCall == PqTop(rebuildHeap(<< >>, loansAtCall)).L

\* C12: if amount > 0 is not larger than the principal of the top-ranked
\* loan, allocatePayment takes exactly one payment step: the whole amount
\* goes to the top-ranked loan, whose principal goes down by exactly amount,
\* every other loan is untouched and no leftover is reported.
C12_SmallAmountPaysTopLoanOnce ==
  (choice = 3 /\ amt > 0 /\ loansAtCall # << >> /\ amt <= TopAtCall.principal) =>
    \/ pc = "alloc" /\ trace = << >> /\ loans = loansAtCall
    \/ /\ trace = << [ id |-> TopAtCall.id, name |-> TopAtCall.name, pay |-> amt,
                       remaining |-> TopAtCall.principal - amt ] >>
       /\ amount = 0
       /\ pc = "alloc" => ~ LoopContinues(amount, pq)
       /\ "Leftover" \notin msgs
       /\ Len(loans) = Len(loansAtCall)
       /\ \A i \in 1 .. Len(loans) :
            loans[i] = IF loans[i].id = TopAtCall.id
                         THEN [ loansAtCall[i] EXCEPT !.principal = @ - amt ]
                         ELSE loansAtCall[i]
       /\ \A i \in 1 .. Len(loansAtCall) :
            ~ ScoreLess(computePriority(TopAtCall, inflationRate),
                        computePriority(loansAtCall[i], inflationRate))

\* Car (450) ranked above Edu (300): a payment of 300 leaves Car 150, Edu 300
C12_Witness ==
  /\ Returned
  /\ Len(loans) = 2
  /\ loansAtCall[1].name = "Edu" /\ loansAtCall[2].name = "Car"
  /\ loansAtCall[2].principal = 3 * Quantum
  /\ amt = 2 * Quantum
  /\ loans[1] = loansAtCall[1]
  /\ loans[2].principal = Quantum

\* the ranking is read here: at the loop test of allocatePayment, and by the
\* display that has just run on a non-empty collection
RankingRead == pc = "alloc" \/ (Displayed /\ loans # << >>)

\* the entries of a heap in the order in which top/pop hands them out
RECURSIVE DrainEntries(_)
DrainEntries(h) ==
  IF h = << >> THEN << >> ELSE << PqTop(h) >> \o DrainEntries(PqPop(h))

\* a loan with the attributes that score lowest within the interface's ranges:
\* no interest, no late fee, no credit impact, full inflation sensitivity
LowestScoring(L, d) ==
  [ L EXCEPT !.annualRate = 0, !.lateFee = 0, !.creditFactor = 0,
             !.variableRate = TRUE, !.inflationSensitivity = 10,
             !.daysUntilDue = d ]

FixedAttributes(L) ==
  << L.id, L.name, L.annualRate, L.lateFee, L.creditFactor, L.variableRate,
     L.inflationSensitivity >>

\* C14: no operation removes or reorders a loan or changes its fixed
\* attributes; only simulateDays changes a due date, only a payment step
\* changes a principal, and a payment step changes nothing but the principal
\* of the loan it selected.
C14_FrameOfOperations ==
  [][ /\ Len(loans') >= Len(loans)
      /\ \A i \in 1 .. Len(loans) :
           /\ FixedAttributes(loans'[i]) = FixedAttributes(loans[i])
           /\ loans'[i].daysUntilDue # loans[i].daysUntilDue =>
                pc = "menu" /\ choice' = 4
           /\ loans'[i].principal # loans[i].principal =>
                /\ pc = "alloc"
                /\ LoopContinues(amount, pq)
                /\ loans[i].id = PqTop(pq).L.id
      /\ (pc = "alloc" /\ LoopContinues(amount, pq)) =>
           /\ Len(loans') = Len(loans)
           /\ \A i \in 1 .. Len(loans) :
                loans'[i] =
                  IF loans[i].id = PqTop(pq).L.id
                    THEN [ loans[i] EXCEPT !.principal = @ - Pay(amount, PqTop(pq).L) ]
                    ELSE loans[i] ]_vars

\* a payment step has lowered the second loan of three, the others as entered
C14_Witness ==
  /\ pc = "alloc"
  /\ Len(loans) = 3
  /\ Len(trace) = 1
  /\ trace[1].id = loans[2].id
  /\ trace[1].pay > 0
  /\ loans[2].principal = loansAtCall[2].principal - trace[1].pay
  /\ loans[1] = loansAtCall[1]
  /\ loans[3] = loansAtCall[3]

\* annual rates (percent) and late fees to compare a loan's score at
RateGrid == { 0, 8, 40, 90 }

FeeGrid == { 0, 100, 500, 6000, 20000 }

WithRate(L, r) == [ L EXCEPT !.annualRate = r ]

WithFee(L, f) == [ L EXCEPT !.lateFee = f ]

\* the late fee per unit of principal is over the clamp's limit of 5000
PenaltyClamped(L) == L.lateFee >= 5 * (Max(Micro, L.principal) \div 1000)

\* C15: for every loan that is not settled, all else fixed, a larger annual
\* rate never gives a smaller score and a larger late fee never gives a
\* smaller score, with and without the boost, clamped or not.
C15_ScoreMonotoneInRateAndFee ==
  (pc = "menu" /\ choice = 2) =>
    \A i \in 1 .. Len(loans) :
      ~ Settled(loans[i]) =>
        /\ \A r1, r2 \in RateGrid \cup { loans[i].annualRate } :
             r1 <= r2 =>
               ~ ScoreLess(computePriority(WithRate(loans[i], r2), inflationRate),
                           computePriority(WithRate(loans[i], r1), inflationRate))
        /\ \A f1, f2 \in FeeGrid \cup { loans[i].lateFee } :
             f1 <= f2 =>
               ~ ScoreLess(computePriority(WithFee(loans[i], f2), inflationRate),
                           computePriority(WithFee(loans[i], f1), inflationRate))

\* a boosted loan whose penalty is clamped, next to an unboosted loan whose
\* score really grows with the rate and with the fee
C15_Witness ==
  /\ pc = "menu" /\ choice = 2
  /\ \E i \in 1 .. Len(loans) :
       /\ ~ Settled(loans[i])
       /\ loans[i].daysUntilDue <= 5
       /\ PenaltyClamped(loans[i])
       /\ PenaltyClamped(WithFee(loans[i], 20000))
  /\ \E j \in 1 .. Len(loans) :
       /\ ~ Settled(loans[j])
       /\ loans[j].daysUntilDue > 5
       /\ ~ PenaltyClamped(WithFee(loans[j], 20000))
       /\ ScoreLess(computePriority(WithRate(loans[j], 0), inflationRate),
                    computePriority(WithRate(loans[j], 90), inflationRate))
       /\ ScoreLess(computePriority(WithFee(loans[j], 0), inflationRate),
                    computePriority(WithFee(loans[j], 20000), inflationRate))

\* C16: computeUrgency is exactly 1.0 (10000 in 1e-4) for days <= 0, and for
\* days > 0 it lies strictly between 0 and 1 and strictly decreases as days
\* grows; checked at every due date the simulation has produced, against
\* every due date of the range and along the whole table.
C16_UrgencyOneThenDecreasing ==
  (pc = "menu" /\ choice = 4) =>
    /\ \A i \in 1 .. Len(loans) :
         LET d == loans[i].daysUntilDue
         IN  /\ d <= 0 => computeUrgency(d) = 10000
             /\ d > 0 => (0 < computeUrgency(d) /\ computeUrgency(d) < 10000)
             /\ \A e \in (0 - MaxOverdue) .. MaxDay :
                  /\ (0 < d /\ d < e) => computeUrgency(e) < computeUrgency(d)
                  /\ (d <= 0 /\ 0 < e) => computeUrgency(e) < computeUrgency(d)
                  /\ (d <= 0 /\ e <= 0) => computeUrgency(e) = computeUrgency(d)
    /\ \A e \in 1 .. (Len(Log1pUrgency) - 1) :
         /\ computeUrgency(e + 1) < computeUrgency(e)
         /\ 0 < computeUrgency(e + 1)
         /\ computeUrgency(e) < 10000

\* days have passed: one loan is overdue, one is due tomorrow, one later
C16_Witness ==
  /\ pc = "menu" /\ choice = 4 /\ days > 0
  /\ \E i, j \in 1 .. Len(loans) :
       /\ loans[i].daysUntilDue < 0
       /\ loans[j].daysUntilDue = 3
       /\ computeUrgency(loans[i].daysUntilDue) = 10000
       /\ computeUrgency(loans[j].daysUntilDue) < 10000

\* the ranking h is a fresh view of the master list ls: one entry per loan,
\* each a copy of the master loan with the score of the master loan
PqFresh(h, ls) ==
  /\ Len(h) = Len(ls)
  /\ \A i \in 1 .. Len(ls) :
       \E k \in 1 .. Len(h) :
         /\ h[k].L = ls[i]
         /\ h[k].score = computePriority(ls[i], inflationRate)
         /\ \A m \in 1 .. Len(h) : h[m].L.id = ls[i].id => m = k

\* loan i of ls has the maximal score of ls
MaxScored(ls, i) ==
  \A j \in 1 .. Len(ls) :
    ~ ScoreLess(computePriority(ls[i], inflationRate),
                computePriority(ls[j], inflationRate))

\* C17: every payment step pays a loan whose score, computed from the master
\* list as it is at that step, is maximal over all loans, and leaves a ranking
\* rebuilt from the master list as it is after the step.
C17_StepPaysCurrentMaximum ==
  [][ (pc = "alloc" /\ LoopContinues(amount, pq)) =>
        /\ \E i \in 1 .. Len(loans) :
             /\ MaxScored(loans, i)
             /\ amount' = amount - Min(amount, loans[i].principal)
             /\ loans' = [ loans EXCEPT ![i].principal = @ - Min(amount, @) ]
        /\ \A i \in 1 .. Len(loans) :
             loans'[i] # loans[i] => MaxScored(loans, i)
        /\ PqFresh(pq', loans')
        /\ pq' # << >> =>
             \A k \in 1 .. Len(pq') : ~ ScoreLess(pq'[1].score, pq'[k].score) ]_vars

\* the second step of a call: the first payment settled the loan that led at
\* the call, and the loan that leads now was behind it then
C17_Witness ==
  /\ pc = "alloc"
  /\ Len(trace) = 2
  /\ Len(loans) = 3
  /\ trace[1].remaining = 0
  /\ trace[2].pay > 0
  /\ trace[2].id # trace[1].id
  /\ \E i \in 1 .. Len(loans) :
       /\ loans[i].id = trace[1].id
       /\ Settled(loans[i])
       /\ ~ Settled(loansAtCall[i])

\* C18: wherever the ranking is read (the loop of allocatePayment, the
\* listing) it holds exactly one entry per loan of the master list, each
\* entry equal to the master loan as it is now, scored from the master loan.
C18_RankingFreshWhenRead ==
  RankingRead => PqFresh(pq, loans)

\* the ranking is read after a loan was added behind an older ranking and
\* after a payment of this call was written back
C18_Witness ==
  /\ pc = "alloc"
  /\ Len(trace) = 1
  /\ trace[1].pay > 0
  /\ Len(loans) = 3
  /\ loans # loansAtCall
  /\ Len(pq) = 3
  /\ \E k \in 1 .. Len(pq) : pq[k].L.principal # loansAtCall[k].principal

\* the loans this call has paid into and left with a principal over 1e-6
PartlyPaid ==
  { i \in 1 .. Len(loans) :
      loans[i].principal # loansAtCall[i].principal /\ loans[i].principal > Eps }

\* C19: in one allocatePayment call every payment step after which cash
\* remains left the paid loan at exactly 0; at most one loan is left partly
\* paid, the last one paid, and then no cash remains; a loan that is active
\* when a step takes it has not been paid before in the call.
C19_OnePartialPaymentAtMost ==
  (choice = 3 /\ "Allocating" \in msgs) =>
    /\ \A k \in 1 .. Len(trace) :
         amt - SumPaid(SubSeq(trace, 1, k)) > 0 => trace[k].remaining = 0
    /\ amount > 0 =>
         \A i \in 1 .. Len(loans) :
           loans[i].principal # loansAtCall[i].principal => loans[i].principal = 0
    /\ Cardinality(PartlyPaid) <= 1
    /\ \A i \in PartlyPaid :
         /\ amount = 0
         /\ Len(trace) < MaxTrace => trace[Len(trace)].id = loans[i].id
    /\ \A k, l \in 1 .. Len(trace) :
         (k < l /\ trace[k].id = trace[l].id) =>
           ~ (trace[k].pay + trace[k].remaining > Eps
                /\ trace[l].pay + trace[l].remaining > Eps)
    /\ (pc = "alloc" /\ LoopContinues(amount, pq) /\ ~ Settled(pq[1].L)) =>
         \A i \in 1 .. Len(loans) :
           loans[i].id = pq[1].L.id => loans[i] = loansAtCall[i]

\* a call that settled one loan with cash to spare and left the next one
\* partly paid
C19_Witness ==
  /\ Returned
  /\ Len(trace) = 2
  /\ trace[1].pay > Eps /\ trace[1].remaining = 0
  /\ trace[2].pay > Eps /\ trace[2].remaining > Eps
  /\ amount = 0
  /\ Cardinality(PartlyPaid) = 1

\* the loans of S have pairwise distinct scores in ls
DistinctScores(ls, S) ==
  \A i, j \in S :
    i # j => computePriority(ls[i], inflationRate) # computePriority(ls[j], inflationRate)

\* the loan of S that leads by the scores of ls
Leader(ls, S) ==
  CHOOSE i \in S :
    \A j \in S : ~ ScoreLess(computePriority(ls[i], inflationRate),
                             computePriority(ls[j], inflationRate))

\* the ids of the loans of S in descending order of their scores in ls
RECURSIVE RankedIds(_, _)
RankedIds(ls, S) ==
  IF S = { } THEN << >>
  ELSE LET i == Leader(ls, S)
       IN  << ls[i].id >> \o RankedIds(ls, S \ { i })

\* ranking once: the loans of S are paid in the descending order of the
\* scores of ls, which are never computed again, until the cash a is spent
RECURSIVE PayRankedOnce(_, _, _)
PayRankedOnce(ls, S, a) ==
  IF S = { } \/ a <= 0 THEN << >>
  ELSE LET i == Leader(ls, S)
           pay == Min(a, ls[i].principal)
       IN  << [ id |-> ls[i].id, pay |-> pay ] >>
             \o PayRankedOnce(ls, S \ { i }, a - pay)

\* the recorded steps that took a loan while it was active
RECURSIVE ActiveSteps(_)
ActiveSteps(t) ==
  IF t = << >> THEN << >>
  ELSE (IF t[1].pay + t[1].remaining > Eps
          THEN << [ id |-> t[1].id, pay |-> t[1].pay ] >> ELSE << >>)
         \o ActiveSteps(Tail(t))

\* the active loans this call has not paid into
Unpaid == { i \in Active(loans) : loans[i] = loansAtCall[i] }

\* the ids of the entries of e whose loans are in S, in the order of e
RECURSIVE IdsWithin(_, _)
IdsWithin(e, S) ==
  IF e = << >> THEN << >>
  ELSE (IF \E i \in S : loans[i].id = e[1].L.id THEN << e[1].L.id >> ELSE << >>)
         \o IdsWithin(Tail(e), S)

\* C20: when the loans active at the call have pairwise distinct scores, the
\* steps that take active loans are, in order and amount, those of paying the
\* active loans in the descending-score order of the call's start: a prefix
\* of it while the loop runs, all of it once the cash is spent or every loan
\* is settled; and every rebuilt ranking holds the loans not yet paid in the
\* order they had at the start.
C20_RebuildEqualsRankOnce ==
  (choice = 3 /\ "Allocating" \in msgs
     /\ DistinctScores(loansAtCall, Active(loansAtCall))) =>
    LET plan == PayRankedOnce(loansAtCall, Active(loansAtCall), amt)
        done == ActiveSteps(trace)
    IN  /\ Len(done) <= Len(plan)
        /\ \A k \in 1 .. Len(done) : done[k] = plan[k]
        /\ (amount = 0 \/ AllSettled(loans)) => done = plan
        /\ pc = "alloc" =>
             IdsWithin(DrainEntries(pq), Unpaid) = RankedIds(loansAtCall, Unpaid)

\* three active loans of distinct scores, paid in three steps, the last partly
C20_Witness ==
  /\ Returned
  /\ Cardinality(Active(loansAtCall)) = 3
  /\ DistinctScores(loansAtCall, Active(loansAtCall))
  /\ Len(ActiveSteps(trace)) = 3
  /\ trace[3].remaining > Eps
  /\ ActiveSteps(trace) = PayRankedOnce(loansAtCall, Active(loansAtCall), amt)

====
